---- MODULE Spec2Model ----
(***************************************************************************)
(* The i3 -> SQLite conversion pipeline of                                 *)
(* src/src/gnn_reco/data/sqlite_dataconverter.py: SQLiteDataConverter      *)
(* discovers the event files, splits them and the event_no space among a   *)
(* pool of workers (parallel_extraction), each of which writes temporary   *)
(* shard databases, and merges the shards into the final database.         *)
(*                                                                         *)
(* A frame is modelled by its kind, which fixes what the external          *)
(* collaborators do with it (i3_file.pop_physics, I3Extractor); a row is   *)
(* modelled by its event_no and the frame its values were extracted from;  *)
(* a table by its column names and its rows in physical order; a database  *)
(* file by the tables it holds.                                            *)
(***************************************************************************)
EXTENDS Integers, Sequences, FiniteSets, TLC

(* ---------------------------- bounds ----------------------------------- *)
MaxFiles   == 2   \* event files that discovery returns
MaxFrames  == 3   \* frames over all event files of one run
MaxBatch   == 2   \* max_dictionary_size
MaxWorkers == 2   \* requested number of workers
MaxLevels  == 2   \* directory levels of a path: the root and its folders
MaxTreeFiles == 4 \* files in the directory tree of a path

(* ------------------------ program constants ---------------------------- *)
\* np.arange(0,99999999,1): the event_no space [0, U)
U == 99999999

\* table names: 'truth' and 'RetroReco' are literals, the pulsemap name is
\* the constructor argument
Truth     == "truth"
RetroReco == "RetroReco"
Pulsemap  == "SRTInIcePulses"

\* column sets produced by the extractor (opaque), with the event_no column
\* that apply_event_no adds
TruthColumns == <<"energy", "event_no">>
PulseColumns == <<"charge", "dom_x", "event_no">>
RetroColumns == <<"azimuth_retro", "event_no">>

(* ------------------------------ frames --------------------------------- *)
\* "pulses":     truth fragment and a pulse fragment, no RetroReco
\* "retro":      truth, pulse and RetroReco fragments
\* "nopulse":    truth fragment, pulse fragment with dom_x = None
\* "badpop":     i3_file.pop_physics() raises on it
\* "badextract": process_frame raises on it
FrameKinds == {"pulses", "retro", "nopulse", "badpop", "badextract"}

PopRaises(k)     == k = "badpop"
ExtractRaises(k) == k = "badextract"
\* number of rows of the pulse fragment of a frame (a DataFrame of one row
\* per pulse); 0 rows stands for dom_x = None
Features(k) == IF k = "pulses" THEN 2 ELSE IF k = "retro" THEN 1 ELSE 0
\* len(retros) > 0
HasRetro(k) == k = "retro"

isempty(k) == Features(k) = 0

(* ----------------------------- helpers --------------------------------- *)
RECURSIVE Repeat(_, _)
Repeat(x, n) == IF n = 0 THEN <<>> ELSE <<x>> \o Repeat(x, n - 1)

\* number of occurrences of x in s
Count(s, x) == Cardinality({i \in 1..Len(s) : s[i] = x})

Range(s) == {s[i] : i \in 1..Len(s)}

\* the two row sequences hold the same multiset of rows
SameBag(s, t) ==
    /\ Len(s) = Len(t)
    /\ \A x \in Range(s) \cup Range(t) : Count(s, x) = Count(t, x)

NoDuplicates(s) == \A i, j \in 1..Len(s) : i # j => s[i] # s[j]

\* all orders of a finite set
Orders(S) == {o \in [1..Cardinality(S) -> S] : Range(o) = S}

(* ---------------------------- databases -------------------------------- *)
\* a database file: a function from the names of its tables to the tables
EmptyDb == [t \in {} |-> <<>>]

HasTable(db, t) == t \in DOMAIN db

Rows(db, t) == IF HasTable(db, t) THEN db[t].rows ELSE <<>>

\* DataFrame.to_sql(name, engine, index=False, if_exists='append'): creates
\* the table when it does not exist, appends the rows otherwise
to_sql(db, t, columns, rows) ==
    IF HasTable(db, t)
    THEN [db EXCEPT ![t].rows = @ \o rows]
    ELSE db @@ (t :> [columns |-> columns, rows |-> rows])

\* to_sql of a DataFrame without columns (pd.DataFrame(), the reset buffer):
\* the CREATE TABLE statement has no column and sqlite rejects it
to_sql_raises(rows) == Len(rows) = 0

(* ------------------------------ state ---------------------------------- *)
VARIABLES
    input_files,    \* the event files find_files returns, in shuffled order,
                    \* each with what reading it has shown so far: whether
                    \* it (and its gcd file) can be opened, the kinds of the
                    \* frames popped from it, and whether it has ended there
    workers,        \* self.workers: the requested number of workers
    max_dict_size,  \* self.max_dict_size
    opc,            \* where _processfiles / _merge_databases stands
    dirs,           \* directories created under <outdir>/<db_name>
    manifest,       \* config/i3files.csv: {} or {the list written}
    pool,           \* the tasks of the pool, one per worker (settings[i])
    tmp,            \* the tmp directory: shard name -> database file
    flushed,        \* history: the save_to_sql calls made by the workers
    db_files,       \* _merge_databases: the listing of tmp it worked on
    final,          \* data/<db_name>.db: its tables and its indexes
    run,            \* number of the pipeline run on this input
    prev,           \* summary of the previous run on this input
    disc            \* find_files: the directory tree it walks, where it
                    \* stands and the two lists it has built

vars == <<input_files, workers, max_dict_size, opc, dirs, manifest, pool, tmp,
          flushed, db_files, final, run, prev, disc>>

\* a file of which nothing has been read yet; its name is its position in
\* the list
Unread(i) == [name |-> i, gcd |-> i, opens |-> "unknown", frames |-> <<>>,
              ended |-> FALSE]

\* the frames found in the files so far
RECURSIVE FramesFound(_)
FramesFound(files) ==
    IF files = <<>> THEN 0
    ELSE Len(Head(files).frames) + FramesFound(Tail(files))

\* the final database: its tables, its indexes, and the column
\* declarations of the tables that CREATE TABLE made
NoDatabase == [tables |-> EmptyDb, indexes |-> {}, schema |-> EmptyDb]

NoSummary == [workers |-> 0, truth_rows |-> 0, columns |-> EmptyDb]

\* the pipeline seen from the list that find_files has returned: the walk
\* of the directories is not followed
NoDiscovery == [pc |-> "returned", tree |-> <<>>, level |-> 1,
                files_list |-> <<>>, GCD_list |-> <<>>]

Init ==
    /\ input_files \in {[i \in 1..n |-> Unread(i)] : n \in 0..MaxFiles}
    /\ workers \in 1..MaxWorkers
    /\ max_dict_size \in 1..MaxBatch
    /\ opc = "start"
    /\ dirs = {}
    /\ manifest = {}
    /\ pool = <<>>
    /\ tmp = EmptyDb
    /\ flushed = {}
    /\ db_files = <<>>
    /\ final = NoDatabase
    /\ run = 1
    /\ prev = NoSummary
    /\ disc = NoDiscovery

(* --------------------------- _processfiles ----------------------------- *)
\* np.array_split(a, W) of n items: the first n % W sections hold
\* n // W + 1 items, the others n // W; section i is 0-based
SplitSizeNoRemainder(n, W, i) == n \div W

SplitSize(n, W, i) == (n \div W) + (IF i < n % W THEN 1 ELSE 0)

\* the start of section i: the sizes of the sections before it
RECURSIVE SplitStart(_, _, _)
SplitStart(n, W, i) ==
    IF i = 0 THEN 0 ELSE SplitStart(n, W, i - 1) + SplitSize(n, W, i - 1)

\* event_nos[i] of np.array_split(np.arange(0,U,1), W), as [lo, hi)
EventNos(W, i) ==
    [lo |-> SplitStart(U, W, i),
     hi |-> SplitStart(U, W, i) + SplitSize(U, W, i)]

\* file_list[i] and gcd_file_list[i]: the same split of both lists
FileList(files, W, i) ==
    SubSeq(files, SplitStart(Len(files), W, i) + 1,
                  SplitStart(Len(files), W, i) + SplitSize(Len(files), W, i))

\* workers = min(self.workers, len(input_files))
WorkerCountRequested(requested, nfiles) == requested

WorkerCount(requested, nfiles) ==
    IF requested > nfiles THEN nfiles ELSE requested

\* the names of the files, as save_filenames writes them
FileNames(files) == [f \in 1..Len(files) |-> files[f].name]

\* gcd_files: the calibration file of each file, at the same position
GcdNames(files) == [f \in 1..Len(files) |-> files[f].gcd]

\* settings[i] together with the locals of parallel_extraction at its start
Settings(files, W, i) ==
    [pc            |-> "open",
     err           |-> "none",
     id            |-> i,
     input_files   |-> FileList(FileNames(files), W, i),
     gcd_files     |-> FileList(GcdNames(files), W, i),
     event_no_list |-> EventNos(W, i),
     u             |-> 0,
     pos           |-> 0,
     event_counter |-> 0,
     feature_big   |-> <<>>,
     truth_big     |-> <<>>,
     retro_big     |-> <<>>,
     output_count  |-> 0]

\* len(input_files) > 0, in find_files and in _processfiles
HasFilesAlways(files) == TRUE

HasFiles(files) == Len(files) > 0

\* create the data and tmp directories, find_files, save_filenames; without
\* files: 'ERROR: No files found', return
FindFiles ==
    /\ opc = "start"
    /\ dirs' = dirs \cup {"data", "tmp"}
              \cup (IF HasFiles(input_files) THEN {"config"} ELSE {})
    /\ manifest' = IF HasFiles(input_files) THEN {FileNames(input_files)}
                   ELSE manifest
    /\ opc' = IF HasFiles(input_files) THEN "found" ELSE "nofiles"
    /\ UNCHANGED <<input_files, workers, max_dict_size, pool, tmp, flushed,
                   db_files, final, run, prev, disc>>

\* build the settings, Pool(processes = workers), map_async, close
StartPool ==
    /\ opc = "found"
    /\ LET W == WorkerCount(workers, Len(input_files))
       IN  pool' = [w \in 1..W |-> Settings(input_files, W, w - 1)]
    /\ opc' = "join"
    /\ UNCHANGED <<input_files, workers, max_dict_size, dirs, manifest, tmp,
                   flushed, db_files, final, run, prev, disc>>

(* ------------------------- parallel_extraction ------------------------- *)
\* out['event_no'] = event_no_list[event_counter]
apply_event_no_first(event_no_list, event_counter) == event_no_list.lo

apply_event_no_twice(event_no_list, event_counter) ==
    event_no_list.lo + 2 * event_counter

apply_event_no(event_no_list, event_counter) ==
    event_no_list.lo + event_counter

\* event_no_list[event_counter] raises IndexError past the end of the list
apply_event_no_raises(event_no_list, event_counter) ==
    event_no_list.lo + event_counter >= event_no_list.hi

\* the name worker-<id>-<output_count>.db
ShardNameNoId(id, output_count) == <<0, output_count>>

ShardName(id, output_count) == <<id, output_count>>

\* save_to_sql: truth, then RetroReco when it has rows, then the pulsemap;
\* the file keeps what was written before a to_sql call raises
save_to_sql(db, feature_big, truth_big, retro_big) ==
    LET d1 == to_sql(db, Truth, TruthColumns, truth_big)
        d2 == IF Len(retro_big) > 0
              THEN to_sql(d1, RetroReco, RetroColumns, retro_big)
              ELSE d1
    IN  IF to_sql_raises(feature_big) THEN d2
        ELSE to_sql(d2, Pulsemap, PulseColumns, feature_big)

save_to_sql_raises(feature_big) == to_sql_raises(feature_big)

\* the shard file as save_to_sql finds it
ShardFile(dir, name) == IF name \in DOMAIN dir THEN dir[name] ELSE EmptyDb

WriteShard(dir, name, db) ==
    IF name \in DOMAIN dir THEN [dir EXCEPT ![name] = db]
    ELSE dir @@ (name :> db)

Flush(me) ==
    [id |-> me.id, output_count |-> me.output_count,
     truth |-> me.truth_big, feature |-> me.feature_big,
     retro |-> me.retro_big]

AfterFlushKeepsFeatures(me) ==
    IF Len(me.feature_big) = 0
    THEN [me EXCEPT !.pc = "failed", !.err = "flush"]
    ELSE [me EXCEPT !.truth_big = <<>>, !.retro_big = <<>>,
                    !.output_count = @ + 1]

\* the worker after a save_to_sql call and the reset of its buffers, or
\* after the exception that save_to_sql raised
AfterFlush(me) ==
    IF save_to_sql_raises(me.feature_big)
    THEN [me EXCEPT !.pc = "failed", !.err = "flush"]
    ELSE [me EXCEPT !.feature_big = <<>>, !.truth_big = <<>>,
                    !.retro_big = <<>>, !.output_count = @ + 1]

\* len(truth_big) >= max_dict_size
BatchFullLate(truth_big, size) == Len(truth_big) > size

BatchFull(truth_big, size) == Len(truth_big) >= size

\* len(truth_big) > 0 after the last file
RemainderLost(truth_big) == FALSE

Remainder(truth_big) == Len(truth_big) > 0

\* the file the worker has open
Current(me) == input_files[me.input_files[me.u + 1]]

\* i3_file.more() can answer True: a frame found before follows, or the
\* file has not been seen to end here and the run can hold one more frame
MoreTrue(me) ==
    /\ me.pc = "frames"
    /\ \/ me.pos < Len(Current(me).frames)
       \/ /\ ~Current(me).ended
          /\ FramesFound(input_files) < MaxFrames

\* i3_file.more() can answer False: no frame found before follows
MoreFalse(me) ==
    /\ me.pc = "frames"
    /\ me.pos = Len(Current(me).frames)

\* the worker is at the head of the loop over its files: at its start, or
\* when the file that is open has no more frame (file_counter += 1)
AtFileLoop(me) == me.pc = "open" \/ MoreFalse(me)

\* the value of u at the head of the loop
NextU(me) == IF me.pc = "open" THEN me.u ELSE me.u + 1

\* the files once the worker has left the file it had open
Left(me) ==
    IF me.pc = "frames"
    THEN [input_files EXCEPT ![me.input_files[me.u + 1]].ended = TRUE]
    ELSE input_files

\* for u in range(len(input_files)): load_geospatial_data, dataio.I3File
OpenFile(w) ==
    /\ w \in DOMAIN pool
    /\ AtFileLoop(pool[w])
    /\ NextU(pool[w]) < Len(pool[w].input_files)
    /\ LET me == pool[w]
           f  == me.input_files[NextU(me) + 1]
       IN  \E opens \in {"yes", "no"} :
             /\ input_files[f].opens \in {"unknown", opens}
             /\ input_files' = [Left(me) EXCEPT ![f].opens = opens]
             /\ pool' = [pool EXCEPT ![w] =
                           IF opens = "yes"
                           THEN [@ EXCEPT !.pc = "frames", !.u = NextU(me),
                                          !.pos = 0]
                           ELSE [@ EXCEPT !.pc = "failed", !.u = NextU(me),
                                          !.err = "open"]]
    /\ UNCHANGED <<workers, max_dict_size, opc, dirs, manifest, tmp, flushed,
                   db_files, final, run, prev, disc>>

\* one iteration of while i3_file.more(), on a frame of kind k
ProcessFrame(w) ==
    /\ w \in DOMAIN pool
    /\ MoreTrue(pool[w])
    /\ \E k \in FrameKinds :
       LET me == pool[w]
           f  == me.input_files[me.u + 1]
           row == [event_no |-> apply_event_no(me.event_no_list,
                                               me.event_counter),
                   frame |-> <<f, me.pos + 1>>]
           buffered ==
               [me EXCEPT
                  !.pos = @ + 1,
                  !.truth_big = Append(@, row),
                  !.retro_big = IF HasRetro(k) THEN Append(@, row) ELSE @,
                  !.feature_big = IF isempty(k) THEN @
                                  ELSE @ \o Repeat(row, Features(k)),
                  !.event_counter = @ + 1]
       IN  /\ IF me.pos < Len(input_files[f].frames)
              THEN /\ k = input_files[f].frames[me.pos + 1]
                   /\ UNCHANGED input_files
              ELSE input_files' = [input_files EXCEPT ![f].frames = Append(@, k)]
           /\ IF PopRaises(k)
              THEN \* except: frame = False
                   /\ pool' = [pool EXCEPT ![w].pos = @ + 1]
                   /\ UNCHANGED <<tmp, flushed>>
              ELSE IF ExtractRaises(k)
              THEN \* process_frame is outside the try
                   /\ pool' = [pool EXCEPT ![w].pc = "failed",
                                           ![w].err = "extract"]
                   /\ UNCHANGED <<tmp, flushed>>
              ELSE IF apply_event_no_raises(me.event_no_list, me.event_counter)
              THEN /\ pool' = [pool EXCEPT ![w].pc = "failed",
                                           ![w].err = "index"]
                   /\ UNCHANGED <<tmp, flushed>>
              ELSE IF BatchFull(buffered.truth_big, max_dict_size)
              THEN LET name == ShardName(me.id, me.output_count)
                   IN  /\ tmp' = WriteShard(tmp, name,
                                    save_to_sql(ShardFile(tmp, name),
                                                buffered.feature_big,
                                                buffered.truth_big,
                                                buffered.retro_big))
                       /\ flushed' = flushed \cup {Flush(buffered)}
                       /\ pool' = [pool EXCEPT ![w] = AfterFlush(buffered)]
              ELSE /\ pool' = [pool EXCEPT ![w] = buffered]
                   /\ UNCHANGED <<tmp, flushed>>
    /\ UNCHANGED <<workers, max_dict_size, opc, dirs, manifest, db_files, final, run,
                   prev, disc>>

\* after the last file: flush what is left, return
FinalFlush(w) ==
    /\ w \in DOMAIN pool
    /\ AtFileLoop(pool[w])
    /\ NextU(pool[w]) = Len(pool[w].input_files)
    /\ input_files' = Left(pool[w])
    /\ LET me == [pool[w] EXCEPT !.u = NextU(pool[w]), !.pos = 0]
           name == ShardName(me.id, me.output_count)
       IN  IF Remainder(me.truth_big)
           THEN /\ tmp' = WriteShard(tmp, name,
                             save_to_sql(ShardFile(tmp, name), me.feature_big,
                                         me.truth_big, me.retro_big))
                /\ flushed' = flushed \cup {Flush(me)}
                /\ pool' = [pool EXCEPT ![w] =
                              IF AfterFlush(me).pc = "failed"
                              THEN AfterFlush(me)
                              ELSE [AfterFlush(me) EXCEPT !.pc = "done"]]
           ELSE /\ pool' = [pool EXCEPT ![w] = [me EXCEPT !.pc = "done"]]
                /\ UNCHANGED <<tmp, flushed>>
    /\ UNCHANGED <<workers, max_dict_size, opc, dirs, manifest, db_files, final, run,
                   prev, disc>>

\* p.join(): every task has returned or raised
AllReturnedNoWait(p) == TRUE

AllReturned(p) == \A w \in DOMAIN p : p[w].pc \in {"done", "failed"}

Join ==
    /\ opc = "join"
    /\ AllReturned(pool)
    /\ opc' = "merge"
    /\ UNCHANGED <<input_files, workers, max_dict_size, dirs, manifest, pool,
                   tmp, flushed, db_files, final, run, prev, disc>>

(* --------------------------- _merge_databases -------------------------- *)
\* os.listdir(path_tmp), the names with '.db': every shard, in any order
get_temporary_database_paths(dir) == Orders(DOMAIN dir)

\* the queries on db_files[0] (truth, pulsemap) raise when the table is
\* missing
extract_column_names_raises(dir, files) ==
    \/ ~HasTable(dir[files[1]], Truth)
    \/ ~HasTable(dir[files[1]], Pulsemap)

\* the loop over db_files: the columns of the first shard that has a
\* RetroReco table, [] when the query raises on every shard
retro_columns_of(dir, files) ==
    LET with == {j \in 1..Len(files) : HasTable(dir[files[j]], RetroReco)}
    IN  IF with = {} THEN <<>>
        ELSE dir[files[CHOOSE j \in with : \A l \in with : j <= l]][RetroReco].columns

extract_column_names(dir, files) ==
    [truth_columns     |-> dir[files[1]][Truth].columns,
     pulse_map_columns |-> dir[files[1]][Pulsemap].columns,
     retro_columns     |-> retro_columns_of(dir, files)]

\* CREATE INDEX event_no_<table> ON <table> (event_no)
attach_index_never(fin, table_name) == fin

attach_index(fin, table_name) ==
    [fin EXCEPT !.indexes = @ \cup {<<"event_no", table_name>>}]

\* query_columns: the declaration of each column, built in the loop over
\* the columns (count = 0 for the first)
query_columns(columns, is_pulse_map) ==
    [i \in 1..Len(columns) |->
        LET column == columns[i]
            count  == i - 1
        IN  IF count = 0
            THEN IF column = "event_no"
                 THEN IF is_pulse_map = FALSE
                      THEN <<column, "INTEGER PRIMARY KEY NOT NULL">>
                      ELSE <<column, "NOT NULL">>
                 ELSE <<column, "FLOAT">>
            ELSE IF column = "event_no"
                 THEN IF is_pulse_map = FALSE
                      THEN <<column, "INTEGER PRIMARY KEY NOT NULL">>
                      ELSE <<column, "NOT NULL">>
                 ELSE <<column, "FLOAT">>]

\* CREATE TABLE, and the index for a pulsemap table
create_table(fin, table_name, columns, is_pulse_map) ==
    LET made == [fin EXCEPT
                   !.tables = @ @@ (table_name :>
                                      [columns |-> columns, rows |-> <<>>]),
                   !.schema = @ @@ (table_name :>
                                      query_columns(columns, is_pulse_map))]
    IN  IF is_pulse_map THEN attach_index(made, table_name) ELSE made

\* CREATE TABLE raises on a table that the final database already has
create_empty_tables_raises(fin, retro_columns) ==
    \/ HasTable(fin.tables, Truth)
    \/ Len(retro_columns) > 1 /\ HasTable(fin.tables, RetroReco)
    \/ HasTable(fin.tables, Pulsemap)

create_empty_tables(fin, truth_columns, pulse_map_columns, retro_columns) ==
    LET t == create_table(fin, Truth, truth_columns, FALSE)
        r == IF Len(retro_columns) > 1
             THEN create_table(t, RetroReco, retro_columns, FALSE)
             ELSE t
    IN  create_table(r, Pulsemap, pulse_map_columns, TRUE)

\* _extract_everything: the truth and pulsemap queries raise when the table
\* is missing, the RetroReco query is inside a try (retro = [])
extract_everything_raises(shard) ==
    ~HasTable(shard, Truth) \/ ~HasTable(shard, Pulsemap)

extract_everything(shard) ==
    [truth    |-> Rows(shard, Truth),
     features |-> Rows(shard, Pulsemap),
     retro    |-> Rows(shard, RetroReco)]

EventNosOf(rows) == [i \in 1..Len(rows) |-> rows[i].event_no]

\* the truth table has event_no INTEGER PRIMARY KEY: an insert that repeats
\* an event_no raises
submit_truth_raises(fin, truth) ==
    ~NoDuplicates(EventNosOf(Rows(fin.tables, Truth) \o truth))

submit_truth_never(fin, truth) == fin

submit_truth(fin, truth) ==
    [fin EXCEPT !.tables = to_sql(@, Truth, TruthColumns, truth)]

submit_pulse_maps(fin, features) ==
    [fin EXCEPT !.tables = to_sql(@, Pulsemap, PulseColumns, features)]

submit_retro_never(fin, retro) == fin

submit_retro(fin, retro) ==
    IF Len(retro) > 0
    THEN [fin EXCEPT !.tables = to_sql(@, RetroReco, RetroColumns, retro)]
    ELSE fin

\* one iteration of the loop of _merge_temporary_databases
merge_one_raises(fin, shard) ==
    \/ extract_everything_raises(shard)
    \/ submit_truth_raises(fin, extract_everything(shard).truth)

merge_one(fin, shard) ==
    LET got == extract_everything(shard)
    IN  submit_retro(submit_pulse_maps(submit_truth(fin, got.truth),
                                       got.features),
                     got.retro)

merge_temporary_databases_quiet(fin, dir, files, i) ==
    [raised |-> FALSE, final |-> fin]

\* the loop of _merge_temporary_databases from index i (1-based) on: the
\* final database it leaves and whether a call raised
RECURSIVE merge_temporary_databases(_, _, _, _)
merge_temporary_databases(fin, dir, files, i) ==
    IF i > Len(files) THEN [raised |-> FALSE, final |-> fin]
    ELSE IF merge_one_raises(fin, dir[files[i]])
    THEN [raised |-> TRUE, final |-> fin]
    ELSE merge_temporary_databases(merge_one(fin, dir[files[i]]), dir, files,
                                   i + 1)

\* _merge_databases on the listing `files` of the tmp directory `dir`: how
\* it ends, the final database and the tmp directory it leaves
merge_databases(fin, dir, files) ==
    IF Len(files) = 0
    THEN \* 'No temporary database files found!'
         [opc |-> "nodb", final |-> fin, tmp |-> dir]
    ELSE IF extract_column_names_raises(dir, files)
    THEN [opc |-> "crashed", final |-> fin, tmp |-> dir]
    ELSE IF create_empty_tables_raises(fin, retro_columns_of(dir, files))
    THEN [opc |-> "crashed", final |-> fin, tmp |-> dir]
    ELSE LET c == extract_column_names(dir, files)
             m == merge_temporary_databases(
                      create_empty_tables(fin, c.truth_columns,
                                          c.pulse_map_columns, c.retro_columns),
                      dir, files, 1)
         IN  IF m.raised
             THEN [opc |-> "crashed", final |-> m.final, tmp |-> dir]
             ELSE \* os.system('rm -r %s' % path_tmp)
                  [opc |-> "merged", final |-> m.final, tmp |-> EmptyDb]

\* self._merge_databases(), single-threaded after the join
MergeDatabases ==
    /\ opc = "merge"
    /\ \E files \in get_temporary_database_paths(tmp) :
         LET end == merge_databases(final, tmp, files)
         IN  /\ db_files' = files
             /\ opc' = end.opc
             /\ final' = end.final
             /\ tmp' = end.tmp
             /\ dirs' = IF end.opc = "merged" THEN dirs \ {"tmp"} ELSE dirs
    /\ UNCHANGED <<input_files, workers, max_dict_size, manifest, pool,
                   flushed, run, prev, disc>>

(* --------------------------- specifications ---------------------------- *)
\* where a run ends: 'ERROR: No files found', 'No temporary database files
\* found!', the merge done and tmp removed, or an exception out of the merge
Terminal == {"nofiles", "nodb", "merged", "crashed"}

Next ==
    \/ FindFiles
    \/ StartPool
    \/ \E w \in DOMAIN pool : OpenFile(w)
    \/ \E w \in DOMAIN pool : ProcessFrame(w)
    \/ \E w \in DOMAIN pool : FinalFlush(w)
    \/ Join
    \/ MergeDatabases

Spec == Init /\ [][Next]_vars

\* how the constructor ends from where the run stands: the returns of
\* _processfiles and _merge_databases, or the exception out of the merge
Ends(o) == IF o = "crashed" THEN "raise" ELSE "return"

\* what a run leaves: the number of truth rows and the column set per table
Summary ==
    [workers    |-> Len(pool),
     truth_rows |-> Len(Rows(final.tables, Truth)),
     columns    |-> [t \in DOMAIN final.tables |-> Range(final.tables[t].columns)]]

\* the same input converted once more, into a fresh output directory, with
\* a request that gives another number of workers
Rerun ==
    /\ opc \in Terminal
    /\ run = 1
    /\ \E r \in 1..MaxWorkers :
         /\ WorkerCount(r, Len(input_files)) # Len(pool)
         /\ workers' = r
    /\ prev' = Summary
    /\ run' = 2
    /\ opc' = "start"
    /\ dirs' = {}
    /\ manifest' = {}
    /\ pool' = <<>>
    /\ tmp' = EmptyDb
    /\ flushed' = {}
    /\ db_files' = <<>>
    /\ final' = NoDatabase
    /\ UNCHANGED <<input_files, max_dict_size, disc>>

NextTwice == Next \/ Rerun

SpecTwice == Init /\ [][NextTwice]_vars

\* the scheduling of a run: the orchestrator goes on when it can, and so
\* does every process of the pool
SpecFair ==
    /\ Init
    /\ [][Next]_vars
    /\ WF_vars(FindFiles \/ StartPool \/ Join \/ MergeDatabases)
    /\ \A w \in 1..MaxWorkers :
         WF_vars(OpenFile(w) \/ ProcessFrame(w) \/ FinalFlush(w))

\* a run that did not reach the removal of tmp (stopped while the pool or
\* the merge ran, or ended on an exception of the merge) is followed by a
\* run on the same input into the same output directory: create_out_directory
\* keeps the directories that exist, with what they hold
Restart ==
    /\ run = 1
    /\ opc \in {"join", "merge", "crashed"}
    /\ workers' \in 1..MaxWorkers
    /\ run' = 2
    /\ opc' = "start"
    /\ pool' = <<>>
    /\ flushed' = {}
    /\ db_files' = <<>>
    /\ UNCHANGED <<input_files, max_dict_size, dirs, manifest, tmp, final,
                   prev, disc>>

NextStale == Next \/ Restart

SpecStale == Init /\ [][NextStale]_vars

(* ------------------------------ find_files ----------------------------- *)
\* A file name is modelled by what the two tests on it see: whether it holds
\* one of the accepted extensions, and whether its lower case holds 'gcd' or
\* 'geo'. A path is the level of the directory and the position of the file
\* in the listing of that level; level 1 is the root, the others its folders.
FileNameKinds == [ext : BOOLEAN, gcd : BOOLEAN]

has_extension(file) == file.ext

is_i3_always(file) == TRUE

is_i3(file) == ~file.gcd

\* gcd_rescue, the constructor argument: a path outside the tree
Rescue == <<0, 0>>

\* the listings of at most n files
FileSeqs(n) == UNION {[1..k -> FileNameKinds] : k \in 0..n}

\* the trees of L levels that hold at most n files
RECURSIVE TreesOf(_, _)
TreesOf(L, n) ==
    IF L = 0 THEN {<<>>}
    ELSE UNION {{<<lvl>> \o rest : rest \in TreesOf(L - 1, n - Len(lvl))} :
                  lvl \in FileSeqs(n)}

Trees == UNION {TreesOf(L, MaxTreeFiles) : L \in 1..MaxLevels}

\* the loop over the files of level l from position j on: the event files
\* (i3files_*) or the calibration files (gcds_*) among them, as paths
RECURSIVE FilesOfLevel(_, _, _, _)
FilesOfLevel(files, l, j, event) ==
    IF j > Len(files) THEN <<>>
    ELSE (IF has_extension(files[j]) /\ (is_i3(files[j]) <=> event)
          THEN <<<<l, j>>>> ELSE <<>>)
         \o FilesOfLevel(files, l, j + 1, event)

\* gcd_root / gcd_folder: the last calibration file of the level, gcd_rescue
\* when the level has none
gcd_of_level(gcds) == IF gcds = <<>> THEN Rescue ELSE gcds[Len(gcds)]

\* for k in range(len(i3files) - len(gcds)): gcds.append(gcd)
Pad(i3files, gcds) ==
    IF Len(i3files) > Len(gcds)
    THEN gcds \o Repeat(gcd_of_level(gcds), Len(i3files) - Len(gcds))
    ELSE gcds

\* df.sample(frac = 1) of the two columns: the same order of both lists;
\* pd.DataFrame raises ValueError on lists of different lengths
pairwiseshuffle_raises(files_list, gcd_list) == Len(files_list) # Len(gcd_list)

pairwiseshuffle_apart(files_list, gcd_list) ==
    {[i3  |-> [i \in 1..Len(files_list) |-> files_list[o[i]]],
      gcd |-> [i \in 1..Len(files_list) |-> gcd_list[q[i]]]] :
        o \in Orders(1..Len(files_list)), q \in Orders(1..Len(files_list))}

pairwiseshuffle(files_list, gcd_list) ==
    {[i3  |-> [i \in 1..Len(files_list) |-> files_list[o[i]]],
      gcd |-> [i \in 1..Len(files_list) |-> gcd_list[o[i]]]] :
        o \in Orders(1..Len(files_list))}

InitDiscovery ==
    /\ input_files = <<>>
    /\ workers \in 1..MaxWorkers
    /\ max_dict_size = MaxBatch
    /\ opc = "start"
    /\ dirs = {}
    /\ manifest = {}
    /\ pool = <<>>
    /\ tmp = EmptyDb
    /\ flushed = {}
    /\ db_files = <<>>
    /\ final = NoDatabase
    /\ run = 1
    /\ prev = NoSummary
    /\ \E t \in Trees :
         disc = [pc |-> "walk", tree |-> t, level |-> 1,
                 files_list |-> <<>>, GCD_list |-> <<>>]

\* find_i3_files on the root (level 1) or on a folder: extend the two lists
\* by the event files of the level and its padded calibration files
WalkLevel ==
    /\ disc.pc = "walk"
    /\ disc.level <= Len(disc.tree)
    /\ LET files   == disc.tree[disc.level]
           i3files == FilesOfLevel(files, disc.level, 1, TRUE)
           gcds    == FilesOfLevel(files, disc.level, 1, FALSE)
       IN  disc' = [disc EXCEPT
                      !.files_list = @ \o i3files,
                      !.GCD_list   = @ \o Pad(i3files, gcds),
                      !.level      = @ + 1]
    /\ UNCHANGED <<input_files, workers, max_dict_size, opc, dirs, manifest,
                   pool, tmp, flushed, db_files, final, run, prev>>

\* the end of find_i3_files: pairwiseshuffle(files_list, GCD_list), return
ShuffleFound ==
    /\ disc.pc = "walk"
    /\ disc.level > Len(disc.tree)
    /\ IF pairwiseshuffle_raises(disc.files_list, disc.GCD_list)
       THEN disc' = [disc EXCEPT !.pc = "raised"]
       ELSE \E got \in pairwiseshuffle(disc.files_list, disc.GCD_list) :
              disc' = [disc EXCEPT !.pc = "found", !.files_list = got.i3,
                                   !.GCD_list = got.gcd]
    /\ UNCHANGED <<input_files, workers, max_dict_size, opc, dirs, manifest,
                   pool, tmp, flushed, db_files, final, run, prev>>

\* the files as the pipeline holds them, nothing read from them yet
Discovered(files_list, gcd_list) ==
    [i \in 1..Len(files_list) |->
        [Unread(i) EXCEPT !.name = files_list[i], !.gcd = gcd_list[i]]]

\* the end of find_files and what _processfiles does with its result: with
\* files a second pairwiseshuffle and save_filenames, without files
\* 'ERROR: No files found'
FindFilesReturn ==
    /\ opc = "start"
    /\ disc.pc = "found"
    /\ \E got \in pairwiseshuffle(disc.files_list, disc.GCD_list) :
         /\ disc' = [disc EXCEPT !.pc = "returned", !.files_list = got.i3,
                                 !.GCD_list = got.gcd]
         /\ input_files' = Discovered(got.i3, got.gcd)
    /\ dirs' = dirs \cup {"data", "tmp"}
              \cup (IF HasFiles(input_files') THEN {"config"} ELSE {})
    /\ manifest' = IF HasFiles(input_files') THEN {FileNames(input_files')}
                   ELSE manifest
    /\ opc' = IF HasFiles(input_files') THEN "found" ELSE "nofiles"
    /\ UNCHANGED <<workers, max_dict_size, pool, tmp, flushed, db_files,
                   final, run, prev>>

NextDiscovery ==
    \/ WalkLevel
    \/ ShuffleFound
    \/ FindFilesReturn
    \/ StartPool

SpecDiscovery == InitDiscovery /\ [][NextDiscovery]_vars

(* ---------------------------- properties ------------------------------- *)
\* the rows that the flushes in S wrote to the table of `field`
RECURSIVE FlushRows(_, _)
FlushRows(S, field) ==
    IF S = {} THEN <<>>
    ELSE LET f == CHOOSE f \in S : TRUE
         IN  f[field] \o FlushRows(S \ {f}, field)

\* the workers that have written a shard
Writers == {f.id : f \in flushed}

\* the frames found in the files that pop_physics returned
ReadFrames ==
    {fp \in (1..Len(input_files)) \X (1..MaxFrames) :
        /\ fp[2] <= Len(input_files[fp[1]].frames)
        /\ ~PopRaises(input_files[fp[1]].frames[fp[2]])}

KindOf(fp) == input_files[fp[1]].frames[fp[2]]

RowsOfFrame(rows, fp) == {i \in 1..Len(rows) : rows[i].frame = fp}

\* C1: within one run no two truth rows written by the workers, over all
\* shards of all workers, carry the same event_no, and so no two rows of the
\* final truth table do
C1_EventNoUnique ==
    /\ \A f, g \in flushed :
         \A i \in 1..Len(f.truth), j \in 1..Len(g.truth) :
            (f # g \/ i # j) => f.truth[i].event_no # g.truth[j].event_no
    /\ NoDuplicates(EventNosOf(FlushRows(flushed, "truth")))
    /\ NoDuplicates(EventNosOf(Rows(final.tables, Truth)))

\* two workers have written three shards between them and all their rows
\* are in the final truth table
C1_Witness ==
    /\ opc = "merged"
    /\ Cardinality(Writers) = 2
    /\ Cardinality(flushed) = 3
    /\ Len(Rows(final.tables, Truth)) = 3

\* C2: the event_no ranges of the W >= 1 workers are each contiguous and
\* non-empty, increase from worker 0 to worker W-1 without gap or overlap,
\* and their union is exactly [0, U)
C2_RangesPartition ==
    Len(pool) >= 1 =>
        /\ pool[1].event_no_list.lo = 0
        /\ pool[Len(pool)].event_no_list.hi = U
        /\ \A w \in 1..Len(pool) :
             pool[w].event_no_list.lo < pool[w].event_no_list.hi
        /\ \A w \in 1..Len(pool) - 1 :
             pool[w].event_no_list.hi = pool[w + 1].event_no_list.lo

\* two workers, of which the first has the longer range (U is odd)
C2_Witness ==
    /\ Len(pool) = 2
    /\ pool[1].event_no_list.hi - pool[1].event_no_list.lo
         > pool[2].event_no_list.hi - pool[2].event_no_list.lo

\* C3: the merge never starts while a worker is running: once
\* _merge_databases has been entered (and whatever its end), every worker
\* has returned or raised, so no shard is written after the first read of a
\* shard or the first write to the final database
C3_MergeAfterWorkers ==
    opc \in {"merge", "nodb", "crashed", "merged"} =>
        \A w \in DOMAIN pool : pool[w].pc \in {"done", "failed"}

\* the merge is about to read the shards that two workers have written
C3_Witness ==
    /\ opc = "merge"
    /\ Cardinality(Writers) = 2
    /\ Cardinality(DOMAIN tmp) >= 2

\* C4: a worker that fails on opening an event file or its calibration data
\* is observed: the run does not merge and end like a successful run while
\* files of that worker were left unprocessed
C4_OpenFailureObserved ==
    opc = "merged" => \A w \in DOMAIN pool : pool[w].err # "open"

\* C5: an exception raised while decoding or extracting one frame does not
\* abort the worker: no worker ends on the exception of a frame
C5_FrameErrorSkipped ==
    \A w \in DOMAIN pool : pool[w].err # "extract"

\* C6: when every worker and the merge have completed without error, the
\* final truth table holds exactly one row per frame read, and the pulsemap
\* table holds the pulse rows of exactly the frames whose pulse fragment is
\* not empty, under the event_no of the truth row of the frame
C6_FinalRows ==
    (opc = "merged" /\ \A w \in DOMAIN pool : pool[w].pc = "done") =>
        LET truth == Rows(final.tables, Truth)
            pulse == Rows(final.tables, Pulsemap)
        IN  /\ \A i \in 1..Len(truth) : truth[i].frame \in ReadFrames
            /\ \A i \in 1..Len(pulse) : pulse[i].frame \in ReadFrames
            /\ \A fp \in ReadFrames :
                 /\ Cardinality(RowsOfFrame(truth, fp)) = 1
                 /\ Cardinality(RowsOfFrame(pulse, fp)) = Features(KindOf(fp))
                 /\ \A i \in RowsOfFrame(pulse, fp), j \in RowsOfFrame(truth, fp) :
                      pulse[i].event_no = truth[j].event_no

\* a successful run of two workers, in which one worker flushed a full
\* batch and a remainder, and a frame without pulses was read
C6_Witness ==
    /\ opc = "merged"
    /\ \A w \in DOMAIN pool : pool[w].pc = "done"
    /\ Len(pool) = 2
    /\ \E f, g \in flushed : f.id = g.id /\ Len(f.truth) = 2 /\ Len(g.truth) = 1
    /\ \E fp \in ReadFrames : KindOf(fp) = "nopulse"

\* no file failed to open and no frame raised, in what the runs have read
FaultFree ==
    \A f \in 1..Len(input_files) :
        /\ input_files[f].opens # "no"
        /\ \A p \in 1..Len(input_files[f].frames) :
             input_files[f].frames[p] \in {"pulses", "retro", "nopulse"}

\* C7: the same input converted with two different numbers of workers gives
\* final databases with the same number of truth rows and the same column
\* set per table (stated for inputs whose files all open and whose frames
\* all decode and extract)
C7_SameOutputForWorkerCounts ==
    (run = 2 /\ opc \in Terminal /\ FaultFree) =>
        /\ Summary.truth_rows = prev.truth_rows
        /\ Summary.columns = prev.columns

SameTables(a, b) ==
    /\ DOMAIN a.tables = DOMAIN b.tables
    /\ \A t \in DOMAIN a.tables : SameBag(a.tables[t].rows, b.tables[t].rows)

\* C8: for the shards that the workers have left, merging them in any two
\* orders of the listing gives the same multiset of rows in each final table
C8_MergeOrderIndependent ==
    opc = "merge" =>
        \A o1, o2 \in get_temporary_database_paths(tmp) :
            SameTables(merge_databases(final, tmp, o1).final,
                       merge_databases(final, tmp, o2).final)

\* the shards that the listing names, as the workers wrote them
FlushOf(name) ==
    CHOOSE f \in flushed : ShardName(f.id, f.output_count) = name

\* C9: after a completed merge the final database has the RetroReco table
\* if and only if some shard had one, and then it has the RetroReco columns
\* and the RetroReco rows of all the shards, wherever that shard stood in
\* the listing
C9_RetroTable ==
    opc = "merged" =>
        /\ HasTable(final.tables, RetroReco)
             <=> \E f \in flushed : Len(f.retro) > 0
        /\ HasTable(final.tables, RetroReco) =>
             /\ final.tables[RetroReco].columns = RetroColumns
             /\ SameBag(final.tables[RetroReco].rows,
                        FlushRows(flushed, "retro"))

\* a completed merge whose first shard has no RetroReco table and whose
\* second shard has one
C9_Witness ==
    /\ opc = "merged"
    /\ Len(db_files) >= 2
    /\ Len(FlushOf(db_files[1]).retro) = 0
    /\ Len(FlushOf(db_files[2]).retro) > 0
    /\ HasTable(final.tables, RetroReco)

EventFiles(tree) ==
    {fp \in (1..Len(tree)) \X (1..MaxTreeFiles) :
        /\ fp[2] <= Len(tree[fp[1]])
        /\ tree[fp[1]][fp[2]].ext
        /\ ~tree[fp[1]][fp[2]].gcd}

\* the calibration files of level l of a tree
GcdFiles(tree, l) ==
    {fp \in {l} \X (1..MaxTreeFiles) :
        /\ fp[2] <= Len(tree[l])
        /\ tree[l][fp[2]].ext
        /\ tree[l][fp[2]].gcd}

\* g is a calibration file that the event file e may be paired with: one of
\* the level of e, the rescue path when that level has none
CalibrationOf(tree, e, g) ==
    IF GcdFiles(tree, e[1]) = {} THEN g = Rescue
    ELSE g \in GcdFiles(tree, e[1])

\* the two lists that find_files has returned; nothing when it raised
Returned ==
    IF disc.pc = "returned"
    THEN [i3 |-> disc.files_list, gcd |-> disc.GCD_list]
    ELSE [i3 |-> <<>>, gcd |-> <<>>]

\* C11: for every directory content discovery returns two lists of equal
\* length, the first holding every event file once, in which position i of
\* the second is the calibration file of the event file at position i
C11_OneCalibrationPerFile ==
    /\ disc.pc # "raised"
    /\ disc.pc = "returned" =>
         /\ Len(Returned.i3) = Len(Returned.gcd)
         /\ Range(Returned.i3) = EventFiles(disc.tree)
         /\ NoDuplicates(Returned.i3)
         /\ \A i \in 1..Len(Returned.i3) :
              CalibrationOf(disc.tree, Returned.i3[i], Returned.gcd[i])

\* C12: once discovery has ended, every event file of the tree is paired:
\* with the rescue path when its level holds no calibration file, with a
\* calibration file of its own level otherwise
C12_PairedAtLevel ==
    disc.pc \in {"returned", "raised"} =>
        \A e \in EventFiles(disc.tree) :
            \E i \in 1..Len(Returned.i3) :
                /\ Returned.i3[i] = e
                /\ i <= Len(Returned.gcd)
                /\ CalibrationOf(disc.tree, e, Returned.gcd[i])

\* C13: every shard file that a worker has written holds at least 1 and at
\* most max_dict_size truth rows: a running worker never buffers
\* max_dict_size truth rows beyond the step that appended the last of them,
\* a flush empties the three buffers together, and a worker that has
\* returned has flushed what it held
C13_ShardSize ==
    /\ \A f \in flushed : Len(f.truth) \in 1..max_dict_size
    /\ \A n \in DOMAIN tmp : Len(Rows(tmp[n], Truth)) \in 1..max_dict_size
    /\ \A w \in DOMAIN pool :
         /\ pool[w].pc # "failed" =>
              /\ Len(pool[w].truth_big) < max_dict_size
              /\ pool[w].truth_big = <<>> =>
                   pool[w].feature_big = <<>> /\ pool[w].retro_big = <<>>
         /\ pool[w].pc = "done" => pool[w].truth_big = <<>>

\* a worker has written a full shard of max_dict_size = 2 rows and a
\* last shard of one row, and has returned
C13_Witness ==
    /\ max_dict_size = 2
    /\ \E w \in DOMAIN pool :
         /\ pool[w].pc = "done"
         /\ ShardName(pool[w].id, 0) \in DOMAIN tmp
         /\ ShardName(pool[w].id, 1) \in DOMAIN tmp
         /\ Len(Rows(tmp[ShardName(pool[w].id, 0)], Truth)) = 2
         /\ Len(Rows(tmp[ShardName(pool[w].id, 1)], Truth)) = 1

\* C14: a shard file is written by one flush of one worker: no step of a
\* run changes a shard file that is in the tmp directory (until the merge
\* removes the directory), so no flush writes to the name of another flush
C14_ShardWrittenOnce ==
    [][\A n \in DOMAIN tmp :
          n \in DOMAIN tmp' => tmp'[n] = tmp[n]]_vars

\* two workers have each written their shard number 0, and one of them a
\* shard number 1
C14_Witness ==
    /\ Cardinality({f.id : f \in flushed}) = 2
    /\ \E f, g \in flushed : f.id # g.id /\ f.output_count = g.output_count
    /\ \E f, g \in flushed : f.id = g.id /\ f.output_count # g.output_count
    /\ Cardinality(DOMAIN tmp) = 3

\* the rows of frame fp in the table t of a shard file
ShardRowsOfFrame(shard, t, fp) == RowsOfFrame(Rows(shard, t), fp)

\* the frames that have a row in some table of a shard file
FramesOfShard(shard) ==
    {r.frame : r \in Range(Rows(shard, Truth)) \cup Range(Rows(shard, Pulsemap))
                      \cup Range(Rows(shard, RetroReco))}

\* C15: all the rows of a frame (its truth row, its pulse rows, its
\* RetroReco row) are in one shard file, and no shard file holds a row of a
\* frame of which another shard file holds a row
C15_FlushSelfContained ==
    /\ \A n \in DOMAIN tmp : \A fp \in FramesOfShard(tmp[n]) :
         /\ Cardinality(ShardRowsOfFrame(tmp[n], Truth, fp)) = 1
         /\ Cardinality(ShardRowsOfFrame(tmp[n], Pulsemap, fp))
              = Features(KindOf(fp))
         /\ Cardinality(ShardRowsOfFrame(tmp[n], RetroReco, fp))
              = (IF HasRetro(KindOf(fp)) THEN 1 ELSE 0)
    /\ \A n, m \in DOMAIN tmp :
         n # m => FramesOfShard(tmp[n]) \cap FramesOfShard(tmp[m]) = {}

\* one worker has written two shards that hold pulse rows, one of them with
\* a RetroReco row
C15_Witness ==
    \E n, m \in DOMAIN tmp :
        /\ n # m
        /\ n[1] = m[1]
        /\ Len(Rows(tmp[n], Pulsemap)) > 0
        /\ Len(Rows(tmp[m], Pulsemap)) > 0
        /\ Len(Rows(tmp[n], RetroReco)) > 0

\* C16: the shard files and the tmp directory are removed only after every
\* shard has been merged: after a completed merge no shard file remains and
\* the final truth table holds the truth rows of every shard, and until
\* then, also when the merge has raised part-way, every shard file that was
\* written is still in tmp
C16_TmpRemovedAfterMerge ==
    /\ opc = "merged" =>
         /\ tmp = EmptyDb
         /\ "tmp" \notin dirs
         /\ SameBag(Rows(final.tables, Truth), FlushRows(flushed, "truth"))
    /\ opc \in {"join", "merge", "nodb", "crashed"} =>
         /\ "tmp" \in dirs
         /\ DOMAIN tmp = {ShardName(f.id, f.output_count) : f \in flushed}

\* the merge has raised after it had inserted the rows of a shard, and the
\* shards are still there
C16_Witness ==
    /\ opc = "crashed"
    /\ Len(Rows(final.tables, Truth)) > 0
    /\ Cardinality(DOMAIN tmp) >= 2

\* the declaration that a column of a final table is to have
Declared(column, is_pulse_map) ==
    IF column # "event_no" THEN "FLOAT"
    ELSE IF is_pulse_map THEN "NOT NULL"
    ELSE "INTEGER PRIMARY KEY NOT NULL"

\* the indexes of a database on a table
IndexesOn(fin, table_name) == {ix \in fin.indexes : ix[2] = table_name}

\* C17: the final truth table is created with event_no INTEGER PRIMARY KEY
\* NOT NULL and every other column FLOAT, the pulsemap table with event_no
\* NOT NULL (no primary key), every other column FLOAT and exactly one
\* index, on event_no, for every position of event_no in the column list;
\* the index is there when the tables are still empty, before the first
\* shard is inserted, and after the merge
C17_TableCreation ==
    /\ \A columns \in Orders(Range(PulseColumns)), is_pulse_map \in BOOLEAN :
         \A i \in 1..Len(columns) :
            query_columns(columns, is_pulse_map)[i]
                = <<columns[i], Declared(columns[i], is_pulse_map)>>
    /\ \A t \in DOMAIN final.schema :
         /\ Len(final.schema[t]) = Len(final.tables[t].columns)
         /\ \A i \in 1..Len(final.schema[t]) :
              final.schema[t][i]
                  = <<final.tables[t].columns[i],
                      Declared(final.tables[t].columns[i], t = Pulsemap)>>
         /\ \E i \in 1..Len(final.schema[t]) : final.schema[t][i][1] = "event_no"
    /\ HasTable(final.tables, Pulsemap) =>
         /\ Pulsemap \in DOMAIN final.schema
         /\ IndexesOn(final, Pulsemap) = {<<"event_no", Pulsemap>>}
    /\ HasTable(final.tables, Truth) =>
         /\ Truth \in DOMAIN final.schema
         /\ IndexesOn(final, Truth) = {}
    /\ opc = "merge" =>
         \A files \in get_temporary_database_paths(tmp) :
            (Len(files) > 0 /\ ~extract_column_names_raises(tmp, files)) =>
                LET c == extract_column_names(tmp, files)
                    e == create_empty_tables(final, c.truth_columns,
                                             c.pulse_map_columns,
                                             c.retro_columns)
                IN  /\ IndexesOn(e, Pulsemap) = {<<"event_no", Pulsemap>>}
                    /\ Rows(e.tables, Pulsemap) = <<>>
                    /\ Rows(e.tables, Truth) = <<>>

\* a completed merge that has inserted pulse rows of two shards into the
\* indexed pulsemap table
C17_Witness ==
    /\ opc = "merged"
    /\ Len(db_files) >= 2
    /\ Len(Rows(final.tables, Pulsemap)) >= 2
    /\ <<"event_no", Pulsemap>> \in final.indexes

\* C18: a run that ends because no file was found, or because the workers
\* left no shard to merge, ends with a failure status: it does not end as a
\* run that merged its shards ends
C18_FailureStatus ==
    opc \in {"nofiles", "nodb"} => Ends(opc) # Ends("merged")

\* the files of the workers w, w+1, ... of the pool, one list after another
RECURSIVE PoolFiles(_, _)
PoolFiles(p, w) ==
    IF w > Len(p) THEN <<>> ELSE p[w].input_files \o PoolFiles(p, w + 1)

\* C19: when discovery has found an event file, the manifest lists exactly
\* the event files of the tree, each once and no calibration file, and it
\* is the list that find_files returns and that is split among the workers,
\* in the same order
C19_Manifest ==
    opc \in {"found", "join"} =>
        /\ "config" \in dirs
        /\ manifest = {Returned.i3}
        /\ Range(Returned.i3) = EventFiles(disc.tree)
        /\ NoDuplicates(Returned.i3)
        /\ FileNames(input_files) = Returned.i3
        /\ opc = "join" => PoolFiles(pool, 1) = Returned.i3

\* two event files found beside a calibration file, written to the manifest
\* and split between two workers
C19_Witness ==
    /\ opc = "join"
    /\ Len(pool) = 2
    /\ \E m \in manifest : Len(m) = 2
    /\ \E l \in 1..Len(disc.tree) : GcdFiles(disc.tree, l) # {}

\* the truth rows that the worker `id` has passed to save_to_sql, from its
\* shard number c on, in the order of the shards
RECURSIVE WrittenBy(_, _)
WrittenBy(id, c) ==
    IF \E f \in flushed : f.id = id /\ f.output_count = c
    THEN (CHOOSE f \in flushed : f.id = id /\ f.output_count = c).truth
         \o WrittenBy(id, c + 1)
    ELSE <<>>

\* the truth rows of a worker in the order of its frames: those written,
\* then those still in its buffer (a worker that ended on the exception of
\* a flush holds the rows of that flush)
Assigned(me) ==
    WrittenBy(me.id, 0) \o (IF me.err = "flush" THEN <<>> ELSE me.truth_big)

\* C20: the k-th frame that a worker processes (k from 0, over all its
\* files, frames without pulses included) gets the k-th event_no of the
\* range of the worker, on its truth row and on its pulse and RetroReco
\* rows: event_no increases strictly along the shards of a worker and stays
\* inside its range; past the end of a range apply_event_no raises, and it
\* gives no event_no outside of the range
C20_IdsInOrder ==
    /\ \A w \in DOMAIN pool :
         LET me   == pool[w]
             rows == Assigned(me)
         IN  /\ Len(rows) = me.event_counter
             /\ \A k \in 0..Len(rows) - 1 :
                  /\ rows[k + 1].event_no = me.event_no_list.lo + k
                  /\ rows[k + 1].event_no < me.event_no_list.hi
             /\ \A i, j \in 1..Len(rows) :
                  i < j => rows[i].event_no < rows[j].event_no
             /\ me.err = "index" =>
                  me.event_counter >= me.event_no_list.hi - me.event_no_list.lo
    /\ \A f \in flushed :
         \A r \in Range(f.feature) \cup Range(f.retro) :
            \E i \in 1..Len(f.truth) : f.truth[i] = r
    /\ \A lo \in 0..1, n \in 0..2, c \in 0..3 :
         LET list == [lo |-> lo, hi |-> lo + n]
         IN  IF c >= n THEN apply_event_no_raises(list, c)
             ELSE /\ ~apply_event_no_raises(list, c)
                  /\ apply_event_no(list, c) \in lo..(lo + n - 1)

\* the second of two workers has processed three frames, the first of them
\* without pulses, and has written them to two shards
C20_Witness ==
    \E w \in DOMAIN pool :
        LET me == pool[w]
        IN  /\ me.id = 1
            /\ me.event_counter = 3
            /\ WrittenBy(me.id, 0) = Assigned(me)
            /\ Cardinality({f \in flushed : f.id = me.id}) = 2
            /\ KindOf(Assigned(me)[1].frame) = "nopulse"
            /\ Assigned(me)[3].event_no = me.event_no_list.lo + 2

\* the two lists that the walk of the levels l, l+1, ... of a tree builds
RECURSIVE Walked(_, _)
Walked(tree, l) ==
    IF l > Len(tree) THEN [i3 |-> <<>>, gcd |-> <<>>]
    ELSE LET i3files == FilesOfLevel(tree[l], l, 1, TRUE)
             gcds    == FilesOfLevel(tree[l], l, 1, FALSE)
             rest    == Walked(tree, l + 1)
         IN  [i3  |-> i3files \o rest.i3,
              gcd |-> Pad(i3files, gcds) \o rest.gcd]

\* the pairs at equal positions of two lists of equal length
Pairs(files_list, gcd_list) ==
    [i \in 1..Len(files_list) |-> <<files_list[i], gcd_list[i]>>]

\* C21: the shuffle is a permutation that keeps the pairs: after the shuffle
\* at the end of find_i3_files, and after the second shuffle in find_files,
\* the two lists have the length of the lists that the walk built, which
\* are of equal length, and hold the same multiset of pairs at equal
\* positions
C21_ShuffleKeepsPairs ==
    (disc.pc \in {"found", "returned"} /\ disc.tree # <<>>) =>
        LET built == Walked(disc.tree, 1)
        IN  /\ Len(built.i3) = Len(built.gcd)
            /\ Len(disc.files_list) = Len(built.i3)
            /\ Len(disc.GCD_list) = Len(built.gcd)
            /\ SameBag(Pairs(disc.files_list, disc.GCD_list),
                       Pairs(built.i3, built.gcd))

\* find_files has returned, after its two shuffles, two event files with
\* different calibration files in the other order than the walk built
C21_Witness ==
    /\ disc.pc = "returned"
    /\ Len(disc.files_list) = 2
    /\ disc.GCD_list[1] # disc.GCD_list[2]
    /\ disc.files_list[1] = Walked(disc.tree, 1).i3[2]

C24_NoOrphanRows ==
    opc = "merged" =>
        LET truth == Rows(final.tables, Truth)
        IN  \A r \in Range(Rows(final.tables, Pulsemap))
                     \cup Range(Rows(final.tables, RetroReco)) :
               Cardinality({i \in 1..Len(truth) :
                               truth[i].event_no = r.event_no}) = 1

\* a completed merge of the shards of two workers, with pulse rows of both
\* and a RetroReco row in the final database
C24_Witness ==
    /\ opc = "merged"
    /\ Len(pool) = 2
    /\ Len(Rows(final.tables, RetroReco)) > 0
    /\ \E r, q \in Range(Rows(final.tables, Pulsemap)) :
         r.event_no < pool[2].event_no_list.lo
         /\ q.event_no >= pool[2].event_no_list.lo

\* the pairs of the workers w, w+1, ... of the pool, one list after another
RECURSIVE PoolPairs(_, _)
PoolPairs(p, w) ==
    IF w > Len(p) THEN <<>>
    ELSE Pairs(p[w].input_files, p[w].gcd_files) \o PoolPairs(p, w + 1)

\* C23: the work given to the pool is a partition of the pairs that
\* discovery returned: with N >= 1 pairs and R workers requested there are
\* min(R, N) workers, each pair is given to one worker, with the event file
\* and its calibration file at the same position of the two lists of that
\* worker, every worker has a pair, and the numbers of pairs of two workers
\* differ by at most one
C23_WorkPartition ==
    opc = "join" =>
        LET N == Len(Returned.i3)
        IN  /\ N >= 1
            /\ Len(pool) <= workers /\ Len(pool) <= N
            /\ Len(pool) = workers \/ Len(pool) = N
            /\ \A w \in DOMAIN pool :
                 /\ Len(pool[w].input_files) = Len(pool[w].gcd_files)
                 /\ Len(pool[w].input_files) >= 1
            /\ PoolPairs(pool, 1) = Pairs(Returned.i3, Returned.gcd)
            /\ NoDuplicates(Returned.i3)
            /\ \A v, w \in DOMAIN pool :
                 Len(pool[v].input_files) - Len(pool[w].input_files) \in -1..1

\* three pairs with two different calibration files, split two and one
\* between two workers
C23_Witness ==
    /\ opc = "join"
    /\ Len(pool) = 2
    /\ Len(pool[1].input_files) = 2
    /\ Len(pool[2].input_files) = 1
    /\ pool[1].gcd_files[1] # pool[1].gcd_files[2]

\* C25: the merge reads the shards of this run only: every shard file that a
\* worker of the run has written holds the rows of that flush and no other,
\* and the listing that the merge works on names exactly the shards that
\* the workers of the run have flushed
C25_OnlyShardsOfThisRun ==
    /\ \A f \in flushed :
         LET name == ShardName(f.id, f.output_count)
         IN  name \in DOMAIN tmp => Rows(tmp[name], Truth) = f.truth
    /\ opc \in {"nodb", "merged", "crashed"} =>
         Range(db_files) = {ShardName(f.id, f.output_count) : f \in flushed}

\* C26: under fair scheduling every run comes to one of its three ends:
\* 'ERROR: No files found' reported, 'No temporary database files found!'
\* reported, or the shards merged and tmp removed
C26_Terminates == <>(opc \in {"nofiles", "nodb", "merged"})
====
